---- MODULE Spec2Model ----
(***************************************************************************)
(* BEKKResults (bekk/bekk_results.py): the results container of a BEKK     *)
(* estimation, its derived portfolio computations and its text rendering.  *)
(*                                                                         *)
(* Numbers.  Array entries are exact rationals <<n, d>> in lowest terms    *)
(* with d > 0.  The single value NonFinite stands for the IEEE results     *)
(* inf, -inf and nan that numpy produces (with a warning, not an error)    *)
(* when an array is divided by zero; every arithmetic step the module      *)
(* performs on such a value yields a non-finite value again.  Rounding of  *)
(* binary floating point is not modelled: a value the code computes with   *)
(* rounding error is the exact value here.  Where exact arithmetic has no  *)
(* value at all, the solution of a singular system that the floating-point *)
(* elimination did not reject, the entry is the single value Rounded.      *)
(*                                                                         *)
(* The numerical build.  Whether the LU factorisation inside               *)
(* np.linalg.solve ends with an exactly zero pivot on a singular matrix    *)
(* whose elimination rounds depends on the LAPACK/BLAS in use (for         *)
(* [[12, 12], [7, 7]] the last pivot is 7 - (7 * (1/12)) * 12 = 8.9e-16    *)
(* with reciprocal scaling and 7 - (7/12) * 12 = 0 with division).  lapack *)
(* is the set of such matrices on which this build meets a zero pivot; it  *)
(* is fixed, like the build.                                               *)
(*                                                                         *)
(* Optional values.  None is <<>>, a present value v is <<v>>.             *)
(***************************************************************************)
EXTENDS Integers, Sequences, FiniteSets, TLC

VARIABLES innov, hvar, var_target, param_start, param_final, time_delta,
          opt_out, model, restriction, use_target, cfree, method, ret,
          lapack

fields == <<innov, hvar, var_target, param_start, param_final, time_delta,
            opt_out, model, restriction, use_target, cfree, method>>

vars == <<innov, hvar, var_target, param_start, param_final, time_delta,
          opt_out, model, restriction, use_target, cfree, method, ret,
          lapack>>

\* Largest number of observations (nobs) and of assets (nstocks) explored.
MaxT == 2

MaxN == 2

----------------------------------------------------------------------------
(* Python values *)

None == <<>>

Some(v) == <<v>>

IsNone(o) == o = <<>>

Get(o) == o[1]

\* No call is in progress and no outcome is waiting for the caller.
NoCall == [op |-> "", kind |-> "", ok |-> TRUE, val |-> None, err |-> ""]

\* A call's outcome: a returned value, or a raised exception.
Return(v) == [ok |-> TRUE, val |-> v, err |-> ""]

Raise(e) == [ok |-> FALSE, val |-> <<>>, err |-> e]

----------------------------------------------------------------------------
(* float64 arithmetic, exact *)

Abs(x) == IF x < 0 THEN -x ELSE x

RECURSIVE Gcd(_, _)
Gcd(a, b) == IF b = 0 THEN a ELSE Gcd(b, a % b)

NonFinite == <<0, 0>>

\* A float that rounding error determines (finite or not).
Rounded == <<1, 0>>

\* x is a number exact arithmetic gives.
IsExact(x) == x[2] # 0

\* The result of an operation with an operand that is not exact.
Inexact(x, y) == IF x = NonFinite \/ y = NonFinite THEN NonFinite ELSE Rounded

\* n / d as a float: non-finite when d = 0 (numpy array division).
Frac(n, d) ==
    IF d = 0 THEN NonFinite
    ELSE LET g == Gcd(Abs(n), Abs(d))
             s == IF d < 0 THEN -1 ELSE 1
         IN  <<(s * n) \div g, (s * d) \div g>>

FromInt(k) == <<k, 1>>

\* The float -0.0: equal to 0.0 in value, printed with its sign.  Its sign
\* is kept by negation and addition, the operations whose result __str__
\* prints.
NegZero == <<0, -1>>

\* -x
FNeg(x) ==
    IF ~IsExact(x) THEN x
    ELSE IF x = NegZero THEN FromInt(0)
    ELSE IF x[1] = 0 THEN NegZero
    ELSE <<-x[1], x[2]>>

\* x + y: a zero sum is 0.0 unless both operands are -0.0.
FAdd(x, y) ==
    IF ~(IsExact(x) /\ IsExact(y)) THEN Inexact(x, y)
    ELSE IF x = NegZero /\ y = NegZero THEN NegZero
    ELSE Frac(x[1] * y[2] + y[1] * x[2], x[2] * y[2])

FSub(x, y) ==
    IF IsExact(x) /\ IsExact(y)
    THEN Frac(x[1] * y[2] - y[1] * x[2], x[2] * y[2]) ELSE Inexact(x, y)

FMul(x, y) ==
    IF IsExact(x) /\ IsExact(y)
    THEN Frac(x[1] * y[1], x[2] * y[2]) ELSE Inexact(x, y)

\* Python 2 "/" without the __future__ import, on integer operands: floor.
ClassicDiv(x, y, dtype) ==
    IF ~(IsExact(x) /\ IsExact(y)) THEN Inexact(x, y)
    ELSE IF dtype = "int64" /\ y[1] # 0
         THEN FromInt((x[1] * y[2]) \div (x[2] * y[1]))
         ELSE Frac(x[1] * y[2], x[2] * y[1])

\* "/" under "from __future__ import division": true division whatever the
\* operands' dtype.
TrueDiv(x, y, dtype) ==
    IF IsExact(x) /\ IsExact(y)
    THEN Frac(x[1] * y[2], x[2] * y[1]) ELSE Inexact(x, y)

FDiv(x, y) == TrueDiv(x, y, "float64")

FLeq(x, y) == x[1] * y[2] <= y[1] * x[2]

\* ndarray.sum() of a one-dimensional array.
RECURSIVE FSum(_)
FSum(s) == IF Len(s) = 0 THEN FromInt(0) ELSE FAdd(s[1], FSum(Tail(s)))

\* An ndarray holds computed values: the sequence s with its entries
\* evaluated.
ndarray(s) == SubSeq(s, 1, Len(s))

----------------------------------------------------------------------------
(* numpy.linalg *)

RemoveAt(s, i) == SubSeq(s, 1, i - 1) \o SubSeq(s, i + 1, Len(s))

Minor(M, j) == [i \in 1..(Len(M) - 1) |-> RemoveAt(M[i + 1], j)]

\* Determinant of a square integer matrix (expansion along the first row).
RECURSIVE Det(_)
RECURSIVE DetRow(_, _)
DetRow(M, j) ==
    IF j > Len(M) THEN 0
    ELSE (IF j % 2 = 1 THEN 1 ELSE -1) * M[1][j] * Det(Minor(M, j))
         + DetRow(M, j + 1)

Det(M) == IF Len(M) = 0 THEN 1 ELSE DetRow(M, 1)

ReplaceCol(M, j, b) ==
    [i \in 1..Len(M) |-> [k \in 1..Len(M) |-> IF k = j THEN b[i] ELSE M[i][k]]]

\* The reciprocals of the diagonal in place of the solution of a x = b.
solve_diag(a, b) ==
    Return([j \in 1..Len(a) |-> Frac(b[j], a[j][j])])

\* k >= 1 is a power of two.
RECURSIVE IsPow2(_)
IsPow2(k) == k = 1 \/ (k > 1 /\ k % 2 = 0 /\ IsPow2(k \div 2))

\* |x| < |y|
AbsLess(x, y) == Abs(x[1]) * y[2] < Abs(y[1]) * x[2]

\* The pivot row of column 1: the first row with the largest |entry|.
PivotRow(M) ==
    CHOOSE r \in 1..Len(M) :
        /\ \A i \in 1..Len(M) : ~AbsLess(M[r][1], M[i][1])
        /\ \A i \in 1..(r - 1) : AbsLess(M[i][1], M[r][1])

\* The LU factorisation with partial pivoting that np.linalg.solve runs
\* (LAPACK gesv), on a matrix M of exact entries: "zero" when a pivot is
\* exactly zero with every step before it exact in floating point,
\* "rounded" from the first step that rounds (a non-zero entry is scaled by
\* the reciprocal of a pivot that is no power of two), "regular" when all
\* pivots are non-zero and no step rounds.
RECURSIVE getrf(_)
getrf(M) ==
    IF Len(M) = 0 THEN "regular"
    ELSE LET r == PivotRow(M)
             p == M[r][1]
             \* rows 1 and r swapped, the pivot row taken out
             rest == [i \in 1..(Len(M) - 1) |-> IF i + 1 = r THEN M[1] ELSE M[i + 1]]
         IN  IF p[1] = 0 THEN "zero"
             ELSE IF ~IsPow2(Abs(p[1])) /\ \E i \in 1..Len(rest) : rest[i][1][1] # 0
                  THEN "rounded"
             ELSE getrf([i \in 1..Len(rest) |-> [j \in 1..Len(rest) |->
                            FSub(rest[i][j + 1],
                                 FMul(FDiv(rest[i][1], p), M[r][j + 1]))]])

\* The singular matrix a is one whose elimination rounds.
RoundedSingular(a) ==
    /\ Det(a) = 0
    /\ getrf([i \in 1..Len(a) |-> [j \in 1..Len(a) |-> FromInt(a[i][j])]]) = "rounded"

\* np.linalg.solve(a, b): the solution x of a x = b; LinAlgError when the
\* factorisation of a meets an exactly zero pivot.  A singular a whose
\* elimination rounds raises on a build that computes a zero pivot for it,
\* and otherwise has a solution that rounding determines.
solve(a, b) ==
    LET d == Det(a)
    IN  IF d # 0
        THEN Return(ndarray([j \in 1..Len(a) |-> Frac(Det(ReplaceCol(a, j, b)), d)]))
        ELSE IF ~RoundedSingular(a) \/ a \in lapack THEN Raise("LinAlgError")
        ELSE Return(ndarray([j \in 1..Len(a) |-> Rounded]))

ones(n) == [i \in 1..n |-> 1]

----------------------------------------------------------------------------
(* BEKKResults: derived computations.  self is the record of the stored    *)
(* fields; innov is [dtype, data] with data a (nobs x nstocks) array, hvar *)
(* a sequence of nobs (nstocks x nstocks) integer-valued matrices.         *)

nobs(self) == Len(self.innov.data)

\* self.innov.shape[1]
nstocks(self) == Len(self.innov.data[1])

weights_equal(self) ==
    Return([t \in 1..nobs(self) |-> [i \in 1..nstocks(self) |->
              TrueDiv(FromInt(1), FromInt(nstocks(self)), self.innov.dtype)]])

\* inv_hvar / inv_hvar.sum(), forgetting the division.
minvar_row_unnormalised(inv_hvar) == inv_hvar

\* inv_hvar / inv_hvar.sum()
minvar_row(inv_hvar) ==
    LET total == FSum(inv_hvar)
    IN  ndarray([i \in 1..Len(inv_hvar) |-> FDiv(inv_hvar[i], total)])

\* The loop with the solver's error caught and the observation left out.
RECURSIVE minvar_loop_caught(_, _, _)
minvar_loop_caught(hv, n, out) ==
    IF Len(hv) = 0 THEN Return(out)
    ELSE LET inv_hvar == solve(Head(hv), ones(n))
         IN  IF ~inv_hvar.ok THEN minvar_loop_caught(Tail(hv), n, out)
             ELSE minvar_loop_caught(Tail(hv), n, Append(out, minvar_row(inv_hvar.val)))

\* The loop of weights_minvar over self.hvar: the first failing solve ends
\* the call with its error.
RECURSIVE minvar_loop(_, _, _)
minvar_loop(hv, n, out) ==
    IF Len(hv) = 0 THEN Return(out)
    ELSE LET inv_hvar == solve(Head(hv), ones(n))
         IN  IF ~inv_hvar.ok THEN inv_hvar
             ELSE minvar_loop(Tail(hv), n, Append(out, minvar_row(inv_hvar.val)))

weights_minvar(self) == minvar_loop(self.hvar, nstocks(self), <<>>)

\* weights with a silent fallback to equal weights.
weights_fallback(self, kind) ==
    IF kind = "minvar" THEN weights_minvar(self) ELSE weights_equal(self)

weights(self, kind) ==
    IF kind = "equal" THEN weights_equal(self)
    ELSE IF kind = "minvar" THEN weights_minvar(self)
    ELSE Raise("ValueError")

\* ((self.innov * weights) ** 2).sum(1): a squared quantity.
portf_rvar_squared(self, kind) ==
    LET w == weights(self, kind)
    IN  IF ~w.ok THEN w
        ELSE Return([t \in 1..nobs(self) |->
                 FSum([i \in 1..nstocks(self) |->
                     FMul(FMul(FromInt(self.innov.data[t][i]), w.val[t][i]),
                          FMul(FromInt(self.innov.data[t][i]), w.val[t][i]))])])

\* (self.innov * weights).sum(1)
portf_rvar(self, kind) ==
    LET w == weights(self, kind)
    IN  IF ~w.ok THEN w
        ELSE Return(ndarray([t \in 1..nobs(self) |->
                 FSum([i \in 1..nstocks(self) |->
                     FMul(FromInt(self.innov.data[t][i]), w.val[t][i])])]))

\* ((self.hvar.T * weights.T).sum(0) * weights.T).sum(0).  hvar.T has shape
\* (N, N, T) with hvar.T[a, b, t] = hvar[t, b, a]; weights.T, of shape (N, T),
\* broadcasts over the first axis, so the product is hvar[t, b, a] * w[t, b];
\* the inner sum(0) runs over a, the outer over b.
portf_evar(self, kind) ==
    LET w == weights(self, kind)
        N == nstocks(self)
        inner(t, b) == FSum([a \in 1..N |->
                          FMul(FromInt(self.hvar[t][b][a]), w.val[t][b])])
    IN  IF ~w.ok THEN w
        ELSE Return(ndarray([t \in 1..nobs(self) |->
                 FSum([b \in 1..N |-> FMul(inner(t, b), w.val[t][b])])]))

\* ndarray.mean()
mean(a) == FDiv(FSum(a), FromInt(Len(a)))

portf_mvar(self, kind) ==
    LET e == portf_evar(self, kind)
    IN  IF ~e.ok THEN e ELSE Return(mean(e.val))

loss_var_ratio(self, kind) ==
    LET r == portf_rvar(self, kind)
        e == portf_evar(self, kind)
    IN  IF ~r.ok THEN r
        ELSE IF ~e.ok THEN e
        ELSE Return([t \in 1..Len(r.val) |->
                 FSub(FDiv(r.val[t], e.val[t]), FromInt(1))])

----------------------------------------------------------------------------
(* BEKKResults: string rendering *)

\* str() of None or a bool.
PyStr(o) ==
    IF IsNone(o) THEN "None" ELSE IF Get(o) THEN "True" ELSE "False"

\* '...%s' % o for None or a str.
PctS(o) == IF IsNone(o) THEN "None" ELSE Get(o)

RECURSIVE Join(_, _)
Join(s, sep) ==
    IF Len(s) = 0 THEN ""
    ELSE IF Len(s) = 1 THEN s[1]
    ELSE s[1] \o sep \o Join(Tail(s), sep)

\* str() of a two-dimensional integer ndarray whose entries print equally
\* wide: "[[a b]\n [c d]]".
NpStr(o) ==
    IF IsNone(o) THEN "None"
    ELSE LET M == Get(o)
             row(i) == "[" \o Join([j \in 1..Len(M[i]) |-> ToString(M[i][j])], " ")
                           \o "]"
         IN  "[" \o Join([i \in 1..Len(M) |-> row(i)], "\n ") \o "]"

\* '%.2f' % x for a finite x: two decimals, ties to even, the sign of a
\* negative x (also of -0.0 and of one that rounds to zero) printed.
Fmt2(x) ==
    LET a == Abs(x[1]) * 100
        m == Abs(x[2])
        q == a \div m
        r == a % m
        c == IF 2 * r > m \/ (2 * r = m /\ q % 2 = 1) THEN q + 1 ELSE q
        d == c % 100
    IN  (IF x[1] < 0 \/ x = NegZero THEN "-" ELSE "") \o ToString(c \div 100)
            \o "." \o (IF d < 10 THEN "0" ELSE "") \o ToString(d)

\* format_time of bekk/utils.py (not part of the file): a text for a number
\* of seconds, a TypeError for None.
format_time(o) ==
    IF IsNone(o) THEN Raise("TypeError")
    ELSE Return(ToString(Get(o)) \o " sec")

Bar == "============================================================"

\* '...' + o with the operand wrapped in str().
ConcatStrLenient(prefix, o) ==
    IF IsNone(o) THEN Return(prefix \o "None") ELSE Return(prefix \o Get(o))

\* '...' + o for a str o: a TypeError when o is None (lines 114, 115).
ConcatStr(prefix, o) ==
    IF IsNone(o) THEN Raise("TypeError") ELSE Return(prefix \o Get(o))

\* Line 118: str(len(self.opt_out.x)).
NumParams(self) ==
    IF IsNone(self.opt_out) THEN Raise("AttributeError")
    ELSE Return("\nNumber of parameters: " \o ToString(Len(Get(self.opt_out).x)))

HasNit(self) == ~IsNone(self.opt_out) /\ "nit" \in DOMAIN Get(self.opt_out)

\* Lines 119-122 with the try/except removed.
IterationsLineUnguarded(self) ==
    IF HasNit(self)
    THEN Return("\nIterations = " \o ToString(Get(self.opt_out).nit))
    ELSE Raise("AttributeError")

\* Lines 119-122: the iteration count, or NA when reading it fails.
IterationsLine(self) ==
    IF HasNit(self)
    THEN Return("\nIterations = " \o ToString(Get(self.opt_out).nit))
    ELSE Return("\nIterations = NA")

\* Line 124.
TimeLine(self) ==
    LET f == format_time(self.time_delta)
    IN  IF ~f.ok THEN f ELSE Return("\nOptimization time = " \o f.val)

\* -self.opt_out.fun
NegFun(self) == FNeg(Get(self.opt_out).fun)

\* Lines 129-130.
LogLikPenalised(self) ==
    IF IsNone(self.opt_out) THEN Raise("AttributeError")
    ELSE Return("\nFinal log-likelihood (with penalty) = "
                \o Fmt2(NegFun(self)) \o "\n")

\* Lines 131-132: self.param_final.penalty() is an AttributeError on None.
LogLik(self) ==
    IF IsNone(self.opt_out) \/ IsNone(self.param_final)
    THEN Raise("AttributeError")
    ELSE Return("Final log-likelihood = "
                \o Fmt2(FAdd(NegFun(self), Get(self.param_final).penalty))
                \o "\n")

\* The statements of __str__ in order, each with the piece it appends to
\* show or the exception it raises.
Statements(self) ==
    << Return(Bar),
       ConcatStr("\nModel: ", self.model),
       ConcatStr("\nRestriction: ", self.restriction),
       Return("\nUse target: " \o PyStr(self.use_target)),
       Return("\nMatrix C is free: " \o PyStr(self.cfree)),
       NumParams(self),
       IterationsLine(self),
       Return("\nOptimization method = " \o PctS(self.method)),
       TimeLine(self),
       Return("\n\nFinal parameters:"),
       Return(IF IsNone(self.param_final) THEN "None"
              ELSE Get(self.param_final).text),
       Return("\nVariance target:\n"),
       Return(NpStr(self.var_target) \o "\n"),
       LogLikPenalised(self),
       LogLik(self),
       Return(Bar) >>

\* Runs the statements: the first exception ends the call.
RECURSIVE RunFrom(_, _, _)
RunFrom(stmts, k, show) ==
    IF k > Len(stmts) THEN Return(show)
    ELSE IF ~stmts[k].ok THEN stmts[k]
    ELSE RunFrom(stmts, k + 1, Append(show, stmts[k].val))

\* __str__: the returned text is the concatenation of the pieces of show.
BEKKResults_str(self) == RunFrom(Statements(self), 1, <<>>)

\* The statement of __str__ that appends the iterations line.
IterationsStmt == 7

----------------------------------------------------------------------------
(* Construction *)

\* The (n x n) matrix with diagonal d, d + e, d + 2e, ..., u above and l
\* below the diagonal, for p = <<d, e, u, l>>.
Hmat(n, p) ==
    [i \in 1..n |-> [j \in 1..n |->
        IF i = j THEN p[1] + (i - 1) * p[2] ELSE IF i < j THEN p[3] ELSE p[4]]]

\* Filtered variance matrices explored: a multiple of the identity, a
\* non-diagonal positive-definite matrix, a singular one with an exact
\* elimination (all entries 1), an indefinite one, and for n >= 2 a singular
\* one that is not symmetric and whose elimination rounds ([[12, 12],
\* [7, 7]] for n = 2).
HParams ==
    { <<2, 0, 0, 0>>, <<2, 1, 1, 1>>, <<1, 0, 1, 1>>, <<1, -2, 0, 0>>,
      <<12, -5, 12, 7>> }

Hmats(n) == { Hmat(n, p) : p \in HParams }

\* Innovation rows explored: (1, 2, 3, ...) and (1, 0, -1, ...).
Rows(n) == { [i \in 1..n |-> i], [i \in 1..n |-> 2 - i] }

Dtypes == { "int64", "float64" }

Kinds == { "equal", "minvar", "bogus", "Equal" }

Params == [text |-> "\nA =\n[[1 0]\n [0 1]]", penalty |-> <<1, 2>>]

OptOutNoNit == [x |-> <<1, 2, 3>>, fun |-> <<-7, 4>>]

OptOut == [x |-> <<1, 2, 3>>, fun |-> <<-7, 4>>, nit |-> 12]

\* An optimizer output whose objective value is 0.0.
OptOutZero == [x |-> <<1, 2, 3>>, fun |-> <<0, 1>>, nit |-> 12]

Opt(S) == { None } \cup { Some(v) : v \in S }

\* A complete result of an estimation: every field populated, the arrays
\* consistent in nobs and nstocks.
InitComplete ==
    \E T \in 1..MaxT, N \in 1..MaxN :
        /\ innov \in [dtype : Dtypes, data : [1..T -> Rows(N)]]
        /\ hvar \in [1..T -> Hmats(N)]
        /\ var_target = Some(Hmat(N, <<2, 0, 1, 1>>))
        /\ param_start = Some(Params)
        /\ param_final = Some(Params)
        /\ time_delta = Some(5)
        /\ opt_out = Some(OptOut)
        /\ model = Some("standard")
        /\ restriction = Some("full")
        /\ use_target = Some(FALSE)
        /\ cfree = Some(TRUE)
        /\ method = Some("SLSQP")
        /\ lapack \in SUBSET { hvar[t] : t \in { k \in 1..T : RoundedSingular(hvar[k]) } }

\* A partial result: any of the fields that only the rendering reads may be
\* None, and the optimizer output may lack its iteration count.
InitPartial ==
    /\ innov = [dtype |-> "float64", data |-> <<[i \in 1..2 |-> i]>>]
    /\ hvar = <<Hmat(2, <<2, 0, 0, 0>>)>>
    /\ var_target \in Opt({Hmat(2, <<2, 0, 1, 1>>)})
    /\ param_start = None
    /\ param_final \in Opt({Params})
    /\ time_delta \in Opt({5})
    /\ opt_out \in Opt({OptOut, OptOutNoNit, OptOutZero})
    /\ model \in Opt({"standard"})
    /\ restriction \in Opt({"full"})
    /\ use_target \in Opt(BOOLEAN)
    /\ cfree \in Opt({TRUE})
    /\ method \in Opt({"SLSQP"})
    /\ lapack = {}

Init ==
    /\ InitComplete \/ InitPartial
    /\ ret = NoCall

----------------------------------------------------------------------------
(* Calls.  The object is used by one caller at a time: a call is made when *)
(* no outcome is pending, ret then holds the call, its argument and its    *)
(* outcome, and Resume is the caller taking the outcome and going on.      *)

Self ==
    [innov |-> innov, hvar |-> hvar, var_target |-> var_target,
     param_start |-> param_start, param_final |-> param_final,
     time_delta |-> time_delta, opt_out |-> opt_out, model |-> model,
     restriction |-> restriction, use_target |-> use_target, cfree |-> cfree,
     method |-> method]

Idle == ret.op = ""

Outcome(op, kind, r) ==
    [op |-> op, kind |-> kind, ok |-> r.ok, val |-> r.val, err |-> r.err]

Call_str ==
    /\ Idle
    /\ ret' = Outcome("__str__", "", BEKKResults_str(Self))
    /\ UNCHANGED <<fields, lapack>>

\* __repr__ returns self.__str__().
Call_repr ==
    /\ Idle
    /\ ret' = Outcome("__repr__", "", BEKKResults_str(Self))
    /\ UNCHANGED <<fields, lapack>>

\* weights_equal filling self.innov with ones in place.
Call_weights_equal_inplace ==
    /\ Idle
    /\ ret' = Outcome("weights_equal", "", weights_equal(Self))
    /\ innov' = [innov EXCEPT !.data =
                    [t \in 1..Len(innov.data) |-> [i \in 1..Len(innov.data[t]) |-> 1]]]
    /\ UNCHANGED <<hvar, var_target, param_start, param_final, time_delta,
                   opt_out, model, restriction, use_target, cfree, method,
                   lapack>>

Call_weights_equal ==
    /\ Idle
    /\ ret' = Outcome("weights_equal", "", weights_equal(Self))
    /\ UNCHANGED <<fields, lapack>>

Call_weights_minvar ==
    /\ Idle
    /\ ret' = Outcome("weights_minvar", "", weights_minvar(Self))
    /\ UNCHANGED <<fields, lapack>>

Call_weights ==
    /\ Idle
    /\ \E kind \in Kinds :
        /\ ret' = Outcome("weights", kind, weights(Self, kind))
        /\ UNCHANGED <<fields, lapack>>

Call_portf_rvar ==
    /\ Idle
    /\ \E kind \in Kinds :
        /\ ret' = Outcome("portf_rvar", kind, portf_rvar(Self, kind))
        /\ UNCHANGED <<fields, lapack>>

Call_portf_evar ==
    /\ Idle
    /\ \E kind \in Kinds :
        /\ ret' = Outcome("portf_evar", kind, portf_evar(Self, kind))
        /\ UNCHANGED <<fields, lapack>>

Call_portf_mvar ==
    /\ Idle
    /\ \E kind \in Kinds :
        /\ ret' = Outcome("portf_mvar", kind, portf_mvar(Self, kind))
        /\ UNCHANGED <<fields, lapack>>

Call_loss_var_ratio ==
    /\ Idle
    /\ \E kind \in Kinds :
        /\ ret' = Outcome("loss_var_ratio", kind, loss_var_ratio(Self, kind))
        /\ UNCHANGED <<fields, lapack>>

Resume ==
    /\ ~Idle
    /\ ret' = NoCall
    /\ UNCHANGED <<fields, lapack>>

Next ==
    \/ Call_str
    \/ Call_repr
    \/ Call_weights_equal
    \/ Call_weights_minvar
    \/ Call_weights
    \/ Call_portf_rvar
    \/ Call_portf_evar
    \/ Call_portf_mvar
    \/ Call_loss_var_ratio
    \/ Resume

Spec == Init /\ [][Next]_vars

----------------------------------------------------------------------------
(* Properties *)

\* Denominator of the grid of comparison portfolios.
VDen == 3

KindOps == { "weights", "portf_rvar", "portf_evar", "portf_mvar", "loss_var_ratio" }

ValidKinds == { "equal", "minvar" }

\* The last call was made with minimum-variance, resp. equal, weights.
MinvarCall == ret.op = "weights_minvar" \/ (ret.op \in KindOps /\ ret.kind = "minvar")

EqualCall == ret.op = "weights_equal" \/ (ret.op \in KindOps /\ ret.kind = "equal")

\* sum over i, j of w[i] * H[i][j] * w[j]
QuadForm(H, w) ==
    FSum([i \in 1..Len(H) |-> FSum([j \in 1..Len(H) |->
        FMul(FMul(w[i], FromInt(H[i][j])), w[j])])])

\* The vector H w.
MatVec(H, w) ==
    [i \in 1..Len(H) |-> FSum([j \in 1..Len(H) |-> FMul(FromInt(H[i][j]), w[j])])]

RowFinite(w) == \A i \in 1..Len(w) : IsExact(w[i])

Leading(H, k) == [i \in 1..k |-> [j \in 1..k |-> H[i][j]]]

\* Symmetric positive-definite (Sylvester's criterion).
IsSPD(H) ==
    /\ \A i, j \in 1..Len(H) : H[i][j] = H[j][i]
    /\ \A k \in 1..Len(H) : Det(Leading(H, k)) > 0

RECURSIVE IntSum(_)
IntSum(s) == IF Len(s) = 0 THEN 0 ELSE s[1] + IntSum(Tail(s))

\* H has a non-zero vector with entries in {-1, 0, 1} in its kernel.
Singular(H) ==
    \E v \in [1..Len(H) -> {-1, 0, 1}] :
        /\ \E i \in 1..Len(H) : v[i] # 0
        /\ \A i \in 1..Len(H) : IntSum([j \in 1..Len(H) |-> H[i][j] * v[j]]) = 0

\* The integer vectors k of length n that sum to VDen, the first n - 1
\* entries within [-VDen, 2 VDen]: k / VDen is a weight vector summing to 1.
Portfolios(n) ==
    { [i \in 1..n |-> IF i < n THEN k[i] ELSE VDen - IntSum(k)] :
        k \in [1..(n - 1) -> (-VDen)..(2 * VDen)] }

\* The variance v^T H v of the portfolio v = k / VDen.
GridVariance(H, k) ==
    Frac(IntSum([i \in 1..Len(H) |->
             IntSum([j \in 1..Len(H) |-> k[i] * H[i][j] * k[j]])]),
         VDen * VDen)

\* C1: for kind in {equal, minvar}, portf_evar(kind) has length T and its
\* entry t is the quadratic form w_t^T H_t w_t with w = weights(kind), also
\* for minimum-variance weights on a non-diagonal H_t.
C1_EvarIsQuadraticForm ==
    (ret.op = "portf_evar" /\ ret.kind \in ValidKinds /\ ret.ok) =>
        /\ Len(ret.val) = Len(hvar)
        /\ \A t \in 1..Len(hvar) :
               ret.val[t] = QuadForm(hvar[t], weights(Self, ret.kind).val[t])

\* C2 as claimed: whenever weights_minvar() returns, every row sums to 1.
C2_EveryRowSumsToOne ==
    (ret.op = "weights_minvar" /\ ret.ok) =>
        \A t \in 1..Len(hvar) : FSum(ret.val[t]) = FromInt(1)

\* C2, amended: whenever weights_minvar() returns, for every H_t that is
\* not singular row t is x / sum(x) with H_t x = ones(N): when sum(x) # 0
\* the row is finite, H_t times the row is a constant non-zero vector and
\* the row sums to 1; when sum(x) = 0 every entry of the row is non-finite.
\* (A singular H_t that the solve did not reject has a row that rounding
\* determines.)
C2_RowsNormalised ==
    (ret.op = "weights_minvar" /\ ret.ok) =>
        /\ Len(ret.val) = Len(hvar)
        /\ \A t \in 1..Len(hvar) :
             LET w == ret.val[t]
                 x == solve(hvar[t], ones(Len(hvar[t])))
             IN  /\ Len(w) = Len(hvar[t])
                 /\ Singular(hvar[t]) => \A i \in 1..Len(w) : w[i] = Rounded
                 /\ ~Singular(hvar[t]) =>
                      /\ x.ok
                      /\ \A i \in 1..Len(w) : MatVec(hvar[t], x.val)[i] = FromInt(1)
                      /\ FSum(x.val) # FromInt(0) =>
                             /\ RowFinite(w)
                             /\ FSum(w) = FromInt(1)
                             /\ MatVec(hvar[t], w)[1] # FromInt(0)
                             /\ \A i \in 1..Len(w) :
                                    MatVec(hvar[t], w)[i] = MatVec(hvar[t], w)[1]
                      /\ FSum(x.val) = FromInt(0) =>
                             \A i \in 1..Len(w) : w[i] = NonFinite

\* C2 witness: weights_minvar() returned one row of unequal finite weights
\* and one non-finite row.
C2_Witness ==
    /\ ret.op = "weights_minvar" /\ ret.ok
    /\ \E t \in 1..Len(hvar) :
           /\ Len(ret.val[t]) >= 2
           /\ RowFinite(ret.val[t])
           /\ ret.val[t][1] # ret.val[t][2]
    /\ \E t \in 1..Len(hvar) : \A i \in 1..Len(ret.val[t]) : ret.val[t][i] = NonFinite

\* C3: for every H_t that is symmetric positive-definite, row t of
\* weights('minvar') is a portfolio (sums to 1) whose variance w^T H_t w is
\* at most that of every comparison portfolio v summing to 1.
C3_MinimumVariance ==
    (ret.op = "weights" /\ ret.kind = "minvar" /\ ret.ok) =>
        \A t \in 1..Len(hvar) :
            IsSPD(hvar[t]) =>
                LET variance == QuadForm(hvar[t], ret.val[t])
                IN  /\ FSum(ret.val[t]) = FromInt(1)
                    /\ \A k \in Portfolios(Len(hvar[t])) :
                           FLeq(variance, GridVariance(hvar[t], k))

\* C3 witness: weights('minvar') returned for a non-diagonal symmetric
\* positive-definite H_t.
C3_Witness ==
    /\ ret.op = "weights" /\ ret.kind = "minvar" /\ ret.ok
    /\ \E t \in 1..Len(hvar) :
           /\ Len(hvar[t]) >= 2
           /\ IsSPD(hvar[t])
           /\ hvar[t][1][2] # 0
           /\ ret.val[t][1] # ret.val[t][2]

\* C4: a call of weights, portf_rvar, portf_evar, portf_mvar or
\* loss_var_ratio with a kind outside {'equal', 'minvar'} ends with a
\* ValueError, returns nothing and leaves the stored fields unchanged.
C4_UnknownKindFails ==
    [][(ret'.op \in KindOps /\ ret'.kind \notin ValidKinds) =>
          (~ret'.ok /\ ret'.err = "ValueError" /\ fields' = fields)]_vars

\* C4 witness: loss_var_ratio('bogus') has failed.
C4_Witness ==
    ret.op = "loss_var_ratio" /\ ret.kind = "bogus" /\ ~ret.ok

SolveRaises(H) == ~solve(H, ones(Len(H))).ok

C6_EqualWeights ==
    (ret.op = "weights_equal" \/ (ret.op = "weights" /\ ret.kind = "equal")) =>
        /\ ret.ok
        /\ Len(ret.val) = Len(innov.data)
        /\ \A t \in 1..Len(innov.data) :
               /\ Len(ret.val[t]) = Len(innov.data[t])
               /\ \A i \in 1..Len(innov.data[t]) :
                      ret.val[t][i] = <<1, Len(innov.data[t])>>

\* C6 witness: weights_equal() returned for integer innovations of two
\* observations of two assets.
C6_Witness ==
    /\ ret.op = "weights_equal" /\ ret.ok
    /\ innov.dtype = "int64"
    /\ Len(innov.data) = 2 /\ Len(innov.data[1]) = 2

\* The scenario N = 2, T = 1, innov = [[1, 2]], H = [[2, 0], [0, 2]].
Scenario ==
    /\ innov.data = <<<<1, 2>>>>
    /\ hvar = <<<< <<2, 0>>, <<0, 2>> >>>>

\* C7: for kind in {equal, minvar}, entry t of loss_var_ratio(kind) is
\* r / e - 1 with r the weighted sum over i of innov[t, i] * w[t, i] and
\* e = portf_evar(kind)[t]; it is non-finite when e = 0; in the scenario
\* with kind = 'equal' it is 1/2.
C7_LossVarRatio ==
    (ret.op = "loss_var_ratio" /\ ret.kind \in ValidKinds /\ ret.ok) =>
        /\ Len(ret.val) = Len(innov.data)
        /\ LET ws == weights(Self, ret.kind).val
               es == portf_evar(Self, ret.kind).val
           IN  \A t \in 1..Len(innov.data) :
                 LET w == ws[t]
                     r == FSum([i \in 1..Len(w) |-> FMul(FromInt(innov.data[t][i]), w[i])])
                     e == es[t]
                 IN  /\ ret.val[t] = FSub(FDiv(r, e), FromInt(1))
                     /\ e = FromInt(0) => ret.val[t] = NonFinite
        /\ (Scenario /\ ret.kind = "equal") => ret.val = << <<1, 2>> >>

\* C7 witness: loss_var_ratio('equal') returned 1/2 for an observation with
\* r = 3/2 and e = 1 and a non-finite entry for one with e = 0.
C7_Witness ==
    /\ ret.op = "loss_var_ratio" /\ ret.kind = "equal" /\ ret.ok
    /\ Len(ret.val) = 2
    /\ ret.val[1] = <<1, 2>>
    /\ portf_evar(Self, "equal").val[2] = FromInt(0)
    /\ ret.val[2] = NonFinite

\* C8: no call, succeeding or failing, and no rendering changes a stored
\* field.
C8_FieldsNeverChange == [][fields' = fields]_vars

\* C8 witness: a failed call (minimum-variance weights on a singular H_t)
\* has been made.
C8_Witness ==
    ret.op = "loss_var_ratio" /\ ret.kind = "minvar" /\ ~ret.ok

\* The stored fields with an iteration count added to the optimizer output.
WithNit(self, n) ==
    [self EXCEPT !.opt_out =
        Some([x |-> Get(self.opt_out).x, fun |-> Get(self.opt_out).fun, nit |-> n])]

\* Every field __str__ reads, the iteration count aside, is present.
RenderedPresent ==
    /\ ~IsNone(model) /\ ~IsNone(restriction) /\ ~IsNone(use_target)
    /\ ~IsNone(cfree) /\ ~IsNone(method) /\ ~IsNone(time_delta)
    /\ ~IsNone(param_final) /\ ~IsNone(var_target) /\ ~IsNone(opt_out)

\* C9: when the optimizer output has no iteration count and every other
\* field is present, rendering succeeds, the iterations line reads
\* 'Iterations = NA', and every other piece is what it is with a count.
C9_MissingNitRendersNA ==
    (ret.op = "__str__" /\ RenderedPresent /\ ~HasNit(Self)) =>
        /\ ret.ok
        /\ Len(ret.val) = Len(Statements(Self))
        /\ ret.val[IterationsStmt] = "\nIterations = NA"
        /\ \A n \in {0, 12} :
             LET full == BEKKResults_str(WithNit(Self, n))
             IN  /\ full.ok
                 /\ Len(full.val) = Len(ret.val)
                 /\ full.val[IterationsStmt] = "\nIterations = " \o ToString(n)
                 /\ \A k \in 1..Len(ret.val) :
                        k # IterationsStmt => ret.val[k] = full.val[k]

\* C9 witness: a complete object without iteration count has been rendered.
C9_Witness ==
    ret.op = "__str__" /\ RenderedPresent /\ ~HasNit(Self) /\ ret.ok

\* C10 as claimed: rendering fails when any of model, restriction,
\* use_target, cfree, method, time_delta, param_final, var_target, opt_out
\* is None.
C10_AnyNoneFails ==
    (ret.op = "__str__" /\ ~RenderedPresent) => ~ret.ok

\* The fields whose absence makes __str__ raise.
NeededPresent ==
    /\ ~IsNone(model) /\ ~IsNone(restriction) /\ ~IsNone(opt_out)
    /\ ~IsNone(time_delta) /\ ~IsNone(param_final)

\* C10, amended: construction accepts None for any field; rendering fails
\* exactly when model, restriction, opt_out, time_delta or param_final is
\* None, and a None use_target, cfree, method or var_target is rendered as
\* the text None.
C10_NoneFailsOrRendersNone ==
    (ret.op = "__str__") =>
        /\ ret.ok <=> NeededPresent
        /\ ret.ok =>
             /\ IsNone(use_target) => ret.val[4] = "\nUse target: None"
             /\ IsNone(cfree) => ret.val[5] = "\nMatrix C is free: None"
             /\ IsNone(method) => ret.val[8] = "\nOptimization method = None"
             /\ IsNone(var_target) => ret.val[13] = "None\n"

\* C10 witness: an object constructed without use_target, cfree, method and
\* var_target has been rendered.
C10_Witness ==
    /\ ret.op = "__str__" /\ ret.ok
    /\ IsNone(use_target) /\ IsNone(cfree) /\ IsNone(method) /\ IsNone(var_target)

====
